---- MODULE Spec2Model ----
(***************************************************************************)
(* A model of the ADPF power hint session of the libperfmgr power HAL      *)
(* (aidl/power-libperfmgr/PowerHintSession.{h,cpp}): the session           *)
(* descriptor, the active/paused/closed state machine, the PID boost       *)
(* computation and the calls the session makes on PowerSessionManager and  *)
(* HintManager.                                                            *)
(*                                                                         *)
(* Spec      one caller: every public method is one atomic action.         *)
(* SpecConc  several binder threads: close, pause and resume are split at  *)
(*           every access to the atomics mSessionClosed and is_active.     *)
(*                                                                         *)
(* Left out: the ATRACE_INT/ALOG calls (no effect on the session), the     *)
(* write-only mLastHintSent, and the mSupportedHints memo of               *)
(* IsHintSupported (DoHint is logged as if the hint were supported).       *)
(* Doubles are modelled as exact fractions [n, d]; a conversion of a       *)
(* double to an integer truncates toward zero, as static_cast does.        *)
(***************************************************************************)
EXTENDS Integers, Sequences, FiniteSets, TLC

\* ------------------------------------------------------------------ bounds
\* The steady clock takes the values 0, 100000, ..., MaxTick * 100000 ns.
MaxTick == 1
\* reportActualWorkDuration is accepted at most MaxUpdates times.
MaxUpdates == 1
\* Longest vector of WorkDuration handed to reportActualWorkDuration.
MaxLen == 1
\* Number of binder threads of SpecConc.
NThreads == 2
\* Calls the binder threads of SpecConc may start, all together.
MaxCalls == 3
\* SpecPid: longest vector of WorkDuration, and reports accepted.
MaxPidLen == 2
MaxPidUpdates == 2

\* ----------------------------------------------------------------- helpers
Abs(x) == IF x < 0 THEN -x ELSE x

\* C++ integer division and static_cast<int64_t>(double): toward zero.
TruncDiv(a, b) ==
    LET q == Abs(a) \div Abs(b)
    IN  IF (a < 0) # (b < 0) THEN -q ELSE q

\* x * f for a double f = n/d, converted back to an integer.
MulFactor(x, f) == TruncDiv(x * f.n, f.d)

Min2(a, b) == IF a < b THEN a ELSE b
Max2(a, b) == IF a > b THEN a ELSE b

\* Faulty variant: a conversion that rounds up.
ns_to_100us_up(ns) == TruncDiv(ns + 99999, 100000)

ns_to_100us(ns) == TruncDiv(ns, 100000)

\* ------------------------------------------------------------ the profile
\* HintManager::GetAdpfProfile(): the AdpfConfig fields the session reads.
Frac(n, d) == [n |-> n, d |-> d]

ProfilePid ==
    [mPidOn |-> TRUE,
     mPidPo |-> Frac(1, 1), mPidPu |-> Frac(1, 1), mPidI |-> Frac(1, 2),
     mPidDo |-> Frac(1, 1), mPidDu |-> Frac(0, 1),
     mSamplingWindowP |-> 1, mSamplingWindowI |-> 0, mSamplingWindowD |-> 1,
     PidIHighDivI |-> 2, PidILowDivI |-> -2,
     mUclampMinInit |-> 2, mUclampMinHigh |-> 3, mUclampMinLow |-> 1,
     mStaleTimeFactor |-> Frac(1, 1), mTargetTimeFactor |-> Frac(1, 1)]

ProfileNoPid ==
    [mPidOn |-> FALSE,
     mPidPo |-> Frac(1, 1), mPidPu |-> Frac(1, 1), mPidI |-> Frac(0, 1),
     mPidDo |-> Frac(1, 1), mPidDu |-> Frac(1, 1),
     mSamplingWindowP |-> 0, mSamplingWindowI |-> 0, mSamplingWindowD |-> 0,
     PidIHighDivI |-> 0, PidILowDivI |-> 0,
     mUclampMinInit |-> 2, mUclampMinHigh |-> 3, mUclampMinLow |-> 1,
     mStaleTimeFactor |-> Frac(2, 1), mTargetTimeFactor |-> Frac(1, 2)]

\* Every window 0 (the whole vector) and every gain 1.
ProfileUnit ==
    [mPidOn |-> TRUE,
     mPidPo |-> Frac(1, 1), mPidPu |-> Frac(1, 1), mPidI |-> Frac(1, 1),
     mPidDo |-> Frac(1, 1), mPidDu |-> Frac(1, 1),
     mSamplingWindowP |-> 0, mSamplingWindowI |-> 0, mSamplingWindowD |-> 0,
     PidIHighDivI |-> 4, PidILowDivI |-> -4,
     mUclampMinInit |-> 2, mUclampMinHigh |-> 5, mUclampMinLow |-> 1,
     mStaleTimeFactor |-> Frac(1, 1), mTargetTimeFactor |-> Frac(1, 1)]

\* Windows shorter than the vector, integral bounds that leave 0 out, and a
\* low uclamp bound of 0.
ProfileWindowed ==
    [mPidOn |-> TRUE,
     mPidPo |-> Frac(2, 1), mPidPu |-> Frac(1, 1), mPidI |-> Frac(1, 1),
     mPidDo |-> Frac(3, 2), mPidDu |-> Frac(1, 2),
     mSamplingWindowP |-> 2, mSamplingWindowI |-> 1, mSamplingWindowD |-> 1,
     PidIHighDivI |-> 3, PidILowDivI |-> 1,
     mUclampMinInit |-> 2, mUclampMinHigh |-> 4, mUclampMinLow |-> 0,
     mStaleTimeFactor |-> Frac(1, 1), mTargetTimeFactor |-> Frac(1, 1)]

\* The profiles by name: the session holds none, it asks for the current one.
Profiles == {"pid", "nopid"}
PidProfiles == {"pid", "nopid", "unit", "windowed"}
AdpfProfile(name) ==
    CASE name = "pid" -> ProfilePid
      [] name = "nopid" -> ProfileNoPid
      [] name = "unit" -> ProfileUnit
      [] name = "windowed" -> ProfileWindowed

\* ------------------------------------------------------------- the inputs
\* The constructor calls explored: uid (1000 is a system uid, 10000 the first
\* application uid) and durationNs, which the constructor does not check.
CtorArgs ==
    {[uid |-> 1000, durationNs |-> 0],
     [uid |-> 10000, durationNs |-> 100000],
     [uid |-> 10000, durationNs |-> -100000]}
\* targetDurationNanos of updateTargetWorkDuration.
UpdateDurations == {0, 1, 200000}
\* durationNanos of one WorkDuration.
WorkDurations == {1, 200000}
ActualDurations ==
    UNION {[1..k -> WorkDurations] : k \in 0..MaxLen}
\* SpecPid: the targets the constructor is given (50000 ns is below the
\* 100 us unit of the PID arithmetic) and the durations reported.
PidCtorArgs ==
    {[uid |-> 10000, durationNs |-> d] : d \in {50000, 100000, 200000, -100000}}
PidWorkDurations == {50000, 100000, 150000, 300000}
PidDurations ==
    UNION {[1..k -> PidWorkDurations] : k \in 1..MaxPidLen}
\* SessionHint: CPU_LOAD_UP = 0 .. CPU_LOAD_RESUME = 3; 4 is not handled.
CPU_LOAD_UP == "CPU_LOAD_UP"
CPU_LOAD_DOWN == "CPU_LOAD_DOWN"
CPU_LOAD_RESET == "CPU_LOAD_RESET"
CPU_LOAD_RESUME == "CPU_LOAD_RESUME"
SessionHints ==
    {CPU_LOAD_UP, CPU_LOAD_DOWN, CPU_LOAD_RESET, CPU_LOAD_RESUME, "OTHER_HINT"}
\* SessionMode: POWER_EFFICIENCY is the one mode of the enum.
POWER_EFFICIENCY == "POWER_EFFICIENCY"
KnownModes == {POWER_EFFICIENCY}
SessionModes == {POWER_EFFICIENCY, "OTHER_MODE"}
\* threadIds of the constructor and of setThreads.
CtorThreads == <<1>>
ThreadLists == {<< >>, <<1, 2>>}

EX_NONE == "EX_NONE"
EX_ILLEGAL_STATE == "EX_ILLEGAL_STATE"
EX_ILLEGAL_ARGUMENT == "EX_ILLEGAL_ARGUMENT"

\* ------------------------------------------------------------------ state
VARIABLES
    profile,            \* the name of the current AdpfConfig profile
    uid,                \* AppHintDesc::uid
    targetNs,           \* AppHintDesc::targetNs
    pidSetPoint,        \* AppHintDesc::pidSetPoint
    is_active,          \* AppHintDesc::is_active (atomic)
    update_count,       \* AppHintDesc::update_count
    integral_error,     \* AppHintDesc::integral_error
    previous_error,     \* AppHintDesc::previous_error
    mLastUpdatedTime,   \* PowerHintSession::mLastUpdatedTime (atomic)
    mSessionClosed,     \* PowerHintSession::mSessionClosed (atomic)
    mModes,             \* PowerHintSession::mModes
    now,                \* std::chrono::steady_clock::now()
    object,             \* "live", "destroyed" (destructor ran) or "crashed"
    threads,            \* thread ids last handed to PowerSessionManager
    nRemoved,           \* removePowerSession calls made so far
    calls,              \* calls on mPSManager/HintManager of the last method run
    lastCall,           \* the last method run: [op, arg, st]
    updated,            \* an updateTargetWorkDuration call has succeeded
    pc,                 \* SpecConc: where each binder thread stands
    started,            \* SpecConc: calls the binder threads have started
    ret,                \* SpecConc: how many close() calls returned each status
    regs                \* SpecRace: the locals of each thread's report call

descVars ==
    <<targetNs, pidSetPoint, is_active, update_count, integral_error,
      previous_error>>
sessVars == <<mLastUpdatedTime, mSessionClosed, mModes>>
mgrVars == <<threads, nRemoved>>
envVars == <<profile, uid, now, object>>
concVars == <<pc, started, ret, regs>>
vars ==
    <<descVars, sessVars, mgrVars, envVars, calls, lastCall, updated,
      concVars>>

Threads == 1..NThreads

\* The locals of a reportActualWorkDuration call that has not started.
NoRegs ==
    [st |-> "-", ds |-> << >>, count |-> 0, integ |-> 0, prev |-> 0,
     output |-> 0]

\* HintManager::GetInstance()->GetAdpfProfile()
GetAdpfProfile == AdpfProfile(profile)

\* ------------------------------------------- calls on the collaborators
Mgr(fn) == [fn |-> fn, kind |-> "-", value |-> 0, dur |-> 0]
\* mPSManager->voteSet(mSessionId, kind, value, kUclampMax, now, dur)
voteSet(kind, value, dur) ==
    [fn |-> "voteSet", kind |-> kind, value |-> value, dur |-> dur]
\* HintManager::DoHint(hint), reached through tryToSendPowerHint
tryToSendPowerHint(hint) ==
    [fn |-> "DoHint", kind |-> hint, value |-> 0, dur |-> 0]

Called(fn) == {i \in 1..Len(calls) : calls[i].fn = fn}

Call(op, arg, st) == [op |-> op, arg |-> arg, st |-> st]

\* ----------------------------------------------------------- the PID loop
WindowStart(w, length) == IF w = 0 \/ w > length THEN 0 ELSE length - w

\* Faulty variant: an integral that is not clamped.
ClampIntegralNone(cfg, x) == x

\* std::min(getPidIHighDivI(), .) then std::max(getPidILowDivI(), .)
ClampIntegral(cfg, x) == Max2(cfg.PidILowDivI, Min2(cfg.PidIHighDivI, x))

\* One pass of the for loop of convertWorkDurationToBoostByPid; i is the C++
\* index, acc the four running sums.
RECURSIVE PidLoop(_, _, _, _, _)
PidLoop(cfg, target, ds, i, acc) ==
    IF i >= Len(ds) THEN acc
    ELSE
        LET length == Len(ds)
            p_start == WindowStart(cfg.mSamplingWindowP, length)
            i_start == WindowStart(cfg.mSamplingWindowI, length)
            d_start == WindowStart(cfg.mSamplingWindowD, length)
            dt == ns_to_100us(target)
            error == ns_to_100us(ds[i + 1] - target)
            dsum == IF i >= d_start
                    THEN acc.derivative_sum + error - acc.previous_error
                    ELSE acc.derivative_sum
            esum == IF i >= p_start THEN acc.err_sum + error ELSE acc.err_sum
            integ == IF i >= i_start
                     THEN ClampIntegral(cfg, acc.integral_error + error * dt)
                     ELSE acc.integral_error
        IN  PidLoop(cfg, target, ds, i + 1,
                    [derivative_sum |-> dsum, err_sum |-> esum,
                     integral_error |-> integ, previous_error |-> error])

\* convertWorkDurationToBoostByPid.  With dt = 0 the double quotient of dOut
\* is inf or NaN and its conversion to int64_t is undefined: ub stands for
\* the low 32 bits of what the conversion leaves (INT64_MAX: -1, INT64_MIN
\* or 0: 0), which is all that static_cast<int>(output) keeps of it.
convertWorkDurationToBoostByPid(cfg, target, integ, prev, ds, ub) ==
    LET length == Len(ds)
        p_start == WindowStart(cfg.mSamplingWindowP, length)
        i_start == WindowStart(cfg.mSamplingWindowI, length)
        d_start == WindowStart(cfg.mSamplingWindowD, length)
        dt == ns_to_100us(target)
        acc == PidLoop(cfg, target, ds, Min2(p_start, Min2(i_start, d_start)),
                       [derivative_sum |-> 0, err_sum |-> 0,
                        integral_error |-> integ, previous_error |-> prev])
        gP == IF acc.err_sum > 0 THEN cfg.mPidPo ELSE cfg.mPidPu
        gD == IF acc.derivative_sum > 0 THEN cfg.mPidDo ELSE cfg.mPidDu
        pOut == TruncDiv(gP.n * acc.err_sum, gP.d * (length - p_start))
        iOut == TruncDiv(cfg.mPidI.n * acc.integral_error, cfg.mPidI.d)
        dOut == IF dt = 0 THEN ub
                ELSE TruncDiv(gD.n * acc.derivative_sum,
                              gD.d * dt * (length - d_start))
    IN  [output |-> pOut + iOut + dOut,
         pOut |-> pOut, iOut |-> iOut, dOut |-> dOut,
         derivative_sum |-> acc.derivative_sum, err_sum |-> acc.err_sum,
         integral_error |-> acc.integral_error,
         previous_error |-> acc.previous_error,
         dt |-> dt, pLen |-> length - p_start, dLen |-> length - d_start]

\* ------------------------------------------------------------ observers
isActive == is_active

StaleWindow == MulFactor(targetNs, GetAdpfProfile.mStaleTimeFactor)

isTimeout == now >= mLastUpdatedTime + StaleWindow

\* uid >= AID_APP_START
isAppSession == uid >= 10000

\* --------------------------------------------------------- construction
\* PowerHintSession::PowerHintSession with AppHintDesc::AppHintDesc
InitWith(profiles, ctorArgs) ==
    /\ profile \in profiles
    /\ \E a \in ctorArgs : uid = a.uid /\ targetNs = a.durationNs
    /\ pidSetPoint = 0
    /\ is_active = TRUE
    /\ update_count = 0
    /\ integral_error = 0
    /\ previous_error = 0
    /\ now = 0
    /\ mLastUpdatedTime = 0
    /\ mSessionClosed = FALSE
    /\ mModes = [m \in KnownModes |-> FALSE]
    /\ object = "live"
    /\ threads = CtorThreads
    /\ nRemoved = 0
    /\ calls = <<Mgr("addPowerSession"),
                 voteSet("ADPF_CPU_LOAD_RESET", GetAdpfProfile.mUclampMinHigh,
                         TruncDiv(targetNs * GetAdpfProfile.mStaleTimeFactor.n,
                                  GetAdpfProfile.mStaleTimeFactor.d * 2)),
                 voteSet("ADPF_VOTE_DEFAULT", GetAdpfProfile.mUclampMinInit, targetNs)>>
    /\ lastCall = Call("PowerHintSession", targetNs, EX_NONE)
    /\ updated = FALSE
    /\ pc = [t \in Threads |-> "idle"]
    /\ started = 0
    /\ ret = [st \in {EX_NONE, EX_ILLEGAL_STATE} |-> 0]
    /\ regs = [t \in Threads |-> NoRegs]

Init == InitWith(Profiles, CtorArgs)

\* ------------------------------------------------- the methods, one caller
\* A method that returns an error before it has changed anything.
Reject(op, arg, st) ==
    /\ lastCall' = Call(op, arg, st)
    /\ calls' = << >>
    /\ UNCHANGED <<descVars, sessVars, mgrVars, updated>>

\* updatePidSetPoint(pidSetPoint, updateVote = true): the vote it casts.
updatePidSetPoint(setPoint) ==
    voteSet("ADPF_VOTE_DEFAULT", setPoint, StaleWindow)

\* Faulty variant: a pause() that takes a paused session for an active one.
pauseChecksIdempotent ==
    IF mSessionClosed THEN EX_ILLEGAL_STATE ELSE EX_NONE

\* Faulty variant: a pause() that zeroes the stored set point.
pauseZeroesSetPoint ==
    /\ object = "live"
    /\ UNCHANGED <<envVars, concVars>>
    /\ IF mSessionClosed \/ ~is_active
       THEN Reject("pause", 0, EX_ILLEGAL_STATE)
       ELSE /\ is_active' = FALSE
            /\ pidSetPoint' = 0
            /\ calls' = <<Mgr("pause")>>
            /\ lastCall' = Call("pause", 0, EX_NONE)
            /\ UNCHANGED <<targetNs, update_count, integral_error,
                           previous_error, sessVars, mgrVars, updated>>

\* The checks a method makes before it changes anything: what it returns.
pauseChecks ==
    IF mSessionClosed THEN EX_ILLEGAL_STATE
    ELSE IF ~is_active THEN EX_ILLEGAL_STATE
    ELSE EX_NONE

pause ==
    /\ object = "live"
    /\ UNCHANGED <<envVars, concVars>>
    /\ IF pauseChecks # EX_NONE THEN Reject("pause", 0, pauseChecks)
       ELSE /\ is_active' = FALSE
            /\ calls' = <<Mgr("pause")>>
            /\ lastCall' = Call("pause", 0, EX_NONE)
            /\ UNCHANGED <<targetNs, pidSetPoint, update_count, integral_error,
                           previous_error, sessVars, mgrVars, updated>>

resumeChecks ==
    IF mSessionClosed THEN EX_ILLEGAL_STATE
    ELSE IF is_active THEN EX_ILLEGAL_STATE
    ELSE EX_NONE

resume ==
    /\ object = "live"
    /\ UNCHANGED <<envVars, concVars>>
    /\ IF resumeChecks # EX_NONE THEN Reject("resume", 0, resumeChecks)
       ELSE /\ is_active' = TRUE
            /\ calls' = <<Mgr("resume")>>
            /\ lastCall' = Call("resume", 0, EX_NONE)
            /\ UNCHANGED <<targetNs, pidSetPoint, update_count, integral_error,
                           previous_error, sessVars, mgrVars, updated>>

\* The body of close(), shared by the method and the destructor.
closeBody(op) ==
    IF mSessionClosed
    THEN Reject(op, 0, EX_ILLEGAL_STATE)
    ELSE /\ mSessionClosed' = TRUE
         /\ nRemoved' = nRemoved + 1
         /\ is_active' = FALSE
         /\ calls' = <<Mgr("removePowerSession")>>
         /\ lastCall' = Call(op, 0, EX_NONE)
         /\ UNCHANGED <<targetNs, pidSetPoint, update_count, integral_error,
                        previous_error, mLastUpdatedTime, mModes, threads,
                        updated>>

close ==
    /\ object = "live"
    /\ UNCHANGED <<envVars, concVars>>
    /\ closeBody("close")

\* ~PowerHintSession: runs close() and drops its status; no call follows.
Destructor ==
    /\ object = "live"
    /\ \A t \in Threads : pc[t] = "idle"
    /\ object' = "destroyed"
    /\ UNCHANGED <<profile, uid, now, concVars>>
    /\ closeBody("~PowerHintSession")

updateTargetWorkDurationChecks(targetDurationNanos) ==
    IF mSessionClosed THEN EX_ILLEGAL_STATE
    ELSE IF targetDurationNanos <= 0 THEN EX_ILLEGAL_ARGUMENT
    ELSE EX_NONE

updateTargetWorkDuration(targetDurationNanos) ==
    /\ object = "live"
    /\ UNCHANGED <<envVars, concVars>>
    /\ IF updateTargetWorkDurationChecks(targetDurationNanos) # EX_NONE
       THEN Reject("updateTargetWorkDuration", targetDurationNanos,
                   updateTargetWorkDurationChecks(targetDurationNanos))
       ELSE /\ updated' = TRUE
            /\ targetNs' = MulFactor(targetDurationNanos,
                                     GetAdpfProfile.mTargetTimeFactor)
            /\ calls' = <<[Mgr("updateTargetWorkDuration") EXCEPT
                             !.kind = "ADPF_VOTE_DEFAULT", !.dur = targetNs']>>
            /\ lastCall' = Call("updateTargetWorkDuration",
                                targetDurationNanos, EX_NONE)
            /\ UNCHANGED <<pidSetPoint, is_active, update_count,
                           integral_error, previous_error, sessVars, mgrVars>>

\* Faulty variants: a report that does not call disableBoosts, and one that
\* takes every report for the first after a timeout.
reportPrologueNoDisable(isFirstFrame) ==
    IF isFirstFrame
    THEN (IF isAppSession THEN <<tryToSendPowerHint("ADPF_FIRST_FRAME")>>
          ELSE << >>) \o <<Mgr("updateUniversalBoostMode")>>
    ELSE << >>

reportPrologueAlwaysFirst(isFirstFrame) ==
    (IF isAppSession THEN <<tryToSendPowerHint("ADPF_FIRST_FRAME")>>
     ELSE << >>) \o <<Mgr("updateUniversalBoostMode"), Mgr("disableBoosts")>>

\* What reportActualWorkDuration calls before it computes the boost.
reportPrologue(isFirstFrame) ==
    (IF isFirstFrame
     THEN (IF isAppSession THEN <<tryToSendPowerHint("ADPF_FIRST_FRAME")>>
           ELSE << >>) \o <<Mgr("updateUniversalBoostMode")>>
     ELSE << >>) \o <<Mgr("disableBoosts")>>

\* Faulty variants of the checks of reportActualWorkDuration: one that does
\* not look at the target, one that looks at the pause state before the
\* vector, one that does not look at the pause state.
reportChecksNoTarget(actualDurations) ==
    IF mSessionClosed THEN EX_ILLEGAL_STATE
    ELSE IF actualDurations = << >> THEN EX_ILLEGAL_ARGUMENT
    ELSE IF ~is_active THEN EX_ILLEGAL_STATE
    ELSE EX_NONE

reportChecksPauseFirst(actualDurations) ==
    IF mSessionClosed THEN EX_ILLEGAL_STATE
    ELSE IF targetNs = 0 THEN EX_ILLEGAL_STATE
    ELSE IF ~is_active THEN EX_ILLEGAL_STATE
    ELSE IF actualDurations = << >> THEN EX_ILLEGAL_ARGUMENT
    ELSE EX_NONE

reportChecksNoPause(actualDurations) ==
    IF mSessionClosed THEN EX_ILLEGAL_STATE
    ELSE IF targetNs = 0 THEN EX_ILLEGAL_STATE
    ELSE IF actualDurations = << >> THEN EX_ILLEGAL_ARGUMENT
    ELSE EX_NONE

reportActualWorkDurationChecks(actualDurations) ==
    IF mSessionClosed THEN EX_ILLEGAL_STATE
    ELSE IF targetNs = 0 THEN EX_ILLEGAL_STATE
    ELSE IF actualDurations = << >> THEN EX_ILLEGAL_ARGUMENT
    ELSE IF ~is_active THEN EX_ILLEGAL_STATE
    ELSE EX_NONE

\* Faulty variants: a set point that is not clamped, and one that a boost of
\* 0 leaves alone.
nextMinUnclamped(output) == pidSetPoint + output

nextMinKeptByZero(output) ==
    IF output = 0 THEN pidSetPoint
    ELSE Max2(GetAdpfProfile.mUclampMinLow,
              Min2(GetAdpfProfile.mUclampMinHigh, pidSetPoint + output))

\* next_min: the set point plus the boost, between mUclampMinLow and
\* mUclampMinHigh.  The durations explored keep the boost far inside the
\* range of int, where static_cast<int>(output) is the identity.
nextMin(output) ==
    Max2(GetAdpfProfile.mUclampMinLow,
         Min2(GetAdpfProfile.mUclampMinHigh, pidSetPoint + output))

\* reportActualWorkDuration, accepted at most limit times.
\* The conversions of a quotient by dt = 0 are undefined: the integer
\* division of the trace call may trap (SIGFPE), or the method goes on with
\* what the conversion of inf/NaN left in dOut.
report(actualDurations, limit) ==
    /\ object = "live"
    /\ UNCHANGED <<profile, uid, now, concVars>>
    /\ IF reportActualWorkDurationChecks(actualDurations) # EX_NONE
       THEN /\ Reject("reportActualWorkDuration", actualDurations,
                      reportActualWorkDurationChecks(actualDurations))
            /\ UNCHANGED object
       ELSE /\ update_count < limit
            /\ update_count' = update_count + 1
            /\ mLastUpdatedTime' = now
            /\ UNCHANGED <<targetNs, is_active, mSessionClosed, mModes,
                           mgrVars, updated>>
            /\ IF ~GetAdpfProfile.mPidOn
               THEN /\ pidSetPoint' = GetAdpfProfile.mUclampMinHigh
                    /\ calls' = reportPrologue(isTimeout)
                                \o <<updatePidSetPoint(pidSetPoint')>>
                    /\ lastCall' = Call("reportActualWorkDuration",
                                        actualDurations, EX_NONE)
                    /\ UNCHANGED <<integral_error, previous_error, object>>
               ELSE \E trap \in IF ns_to_100us(targetNs) = 0
                                THEN BOOLEAN ELSE {FALSE},
                       ub \in IF ns_to_100us(targetNs) = 0
                              THEN {-1, 0} ELSE {0} :
                    LET r == convertWorkDurationToBoostByPid(
                                 GetAdpfProfile, targetNs, integral_error,
                                 previous_error, actualDurations, ub)
                        next_min == nextMin(r.output)
                    IN  /\ integral_error' = r.integral_error
                        /\ previous_error' = r.previous_error
                        /\ IF trap
                           THEN /\ object' = "crashed"
                                /\ calls' = reportPrologue(isTimeout)
                                /\ lastCall' = Call("reportActualWorkDuration",
                                                    actualDurations, "SIGFPE")
                                /\ UNCHANGED pidSetPoint
                           ELSE /\ pidSetPoint' = next_min
                                /\ calls' = reportPrologue(isTimeout)
                                     \o <<updatePidSetPoint(next_min)>>
                                /\ lastCall' = Call("reportActualWorkDuration",
                                                    actualDurations, EX_NONE)
                                /\ UNCHANGED object

reportActualWorkDuration(actualDurations) ==
    report(actualDurations, MaxUpdates)

\* The default: branch of the switch returns before any vote is cast.
sendHintChecks(hint) ==
    IF mSessionClosed THEN EX_ILLEGAL_STATE
    ELSE IF targetNs = 0 THEN EX_ILLEGAL_STATE
    ELSE IF hint \notin {CPU_LOAD_UP, CPU_LOAD_DOWN, CPU_LOAD_RESET,
                         CPU_LOAD_RESUME}
    THEN EX_ILLEGAL_ARGUMENT
    ELSE EX_NONE

\* Faulty variant: a CPU_LOAD_RESET that drops the set point to mUclampMinInit.
sendHintSetPointResetToInit(hint) ==
    CASE hint = CPU_LOAD_UP -> pidSetPoint
      [] hint = CPU_LOAD_DOWN -> GetAdpfProfile.mUclampMinLow
      [] hint = CPU_LOAD_RESET -> GetAdpfProfile.mUclampMinInit
      [] hint = CPU_LOAD_RESUME -> pidSetPoint

\* The set point an accepted hint leaves in the descriptor.
sendHintSetPoint(hint) ==
    CASE hint = CPU_LOAD_UP -> pidSetPoint
      [] hint = CPU_LOAD_DOWN -> GetAdpfProfile.mUclampMinLow
      [] hint = CPU_LOAD_RESET ->
             Max2(GetAdpfProfile.mUclampMinInit, pidSetPoint)
      [] hint = CPU_LOAD_RESUME -> pidSetPoint

sendHint(hint) ==
    /\ object = "live"
    /\ UNCHANGED <<envVars, concVars>>
    /\ IF sendHintChecks(hint) # EX_NONE
       THEN Reject("sendHint", hint, sendHintChecks(hint))
       ELSE /\ pidSetPoint' = sendHintSetPoint(hint)
            /\ calls' =
                   (CASE hint = CPU_LOAD_UP ->
                            <<updatePidSetPoint(pidSetPoint'),
                              voteSet("ADPF_CPU_LOAD_UP",
                                      GetAdpfProfile.mUclampMinHigh, targetNs * 2)>>
                      [] hint = CPU_LOAD_DOWN ->
                            <<updatePidSetPoint(pidSetPoint')>>
                      [] hint = CPU_LOAD_RESET ->
                            <<voteSet("ADPF_CPU_LOAD_RESET",
                                      GetAdpfProfile.mUclampMinHigh,
                                      TruncDiv(targetNs
                                                 * GetAdpfProfile.mStaleTimeFactor.n,
                                               GetAdpfProfile.mStaleTimeFactor.d * 2))>>
                      [] hint = CPU_LOAD_RESUME ->
                            <<voteSet("ADPF_CPU_LOAD_RESUME", pidSetPoint,
                                      TruncDiv(targetNs
                                                 * GetAdpfProfile.mStaleTimeFactor.n,
                                               GetAdpfProfile.mStaleTimeFactor.d * 2))>>)
                   \o <<tryToSendPowerHint(hint)>>
            /\ mLastUpdatedTime' = now
            /\ lastCall' = Call("sendHint", hint, EX_NONE)
            /\ UNCHANGED <<targetNs, is_active, update_count, integral_error,
                           previous_error, mSessionClosed, mModes, mgrVars,
                           updated>>

\* Faulty variant: a setMode() that takes every mode.
setModeChecksAnyMode(mode) ==
    IF mSessionClosed THEN EX_ILLEGAL_STATE ELSE EX_NONE

setModeChecks(mode) ==
    IF mSessionClosed THEN EX_ILLEGAL_STATE
    ELSE IF mode # POWER_EFFICIENCY THEN EX_ILLEGAL_ARGUMENT
    ELSE EX_NONE

setMode(mode, enabled) ==
    /\ object = "live"
    /\ UNCHANGED <<envVars, concVars>>
    /\ IF setModeChecks(mode) # EX_NONE
       THEN Reject("setMode", <<mode, enabled>>, setModeChecks(mode))
       ELSE /\ mModes' = [mModes EXCEPT ![mode] = enabled]
            /\ mLastUpdatedTime' = now
            /\ calls' = << >>
            /\ lastCall' = Call("setMode", <<mode, enabled>>, EX_NONE)
            /\ UNCHANGED <<descVars, mSessionClosed, mgrVars, updated>>

\* Faulty variants of the checks of setThreads: one that looks at the list
\* before the closed flag, one that takes an empty list.
setThreadsChecksArgFirst(threadIds) ==
    IF threadIds = << >> THEN EX_ILLEGAL_ARGUMENT
    ELSE IF mSessionClosed THEN EX_ILLEGAL_STATE
    ELSE EX_NONE

setThreadsChecksAllowEmpty(threadIds) ==
    IF mSessionClosed THEN EX_ILLEGAL_STATE ELSE EX_NONE

setThreadsChecks(threadIds) ==
    IF mSessionClosed THEN EX_ILLEGAL_STATE
    ELSE IF threadIds = << >> THEN EX_ILLEGAL_ARGUMENT
    ELSE EX_NONE

setThreads(threadIds) ==
    /\ object = "live"
    /\ UNCHANGED <<envVars, concVars>>
    /\ IF setThreadsChecks(threadIds) # EX_NONE
       THEN Reject("setThreads", threadIds, setThreadsChecks(threadIds))
       ELSE /\ threads' = threadIds
            /\ pidSetPoint' = GetAdpfProfile.mUclampMinInit
            /\ calls' = <<Mgr("setThreadsFromPowerSession"),
                          updatePidSetPoint(GetAdpfProfile.mUclampMinInit)>>
            /\ lastCall' = Call("setThreads", threadIds, EX_NONE)
            /\ UNCHANGED <<targetNs, is_active, update_count, integral_error,
                           previous_error, sessVars, nRemoved, updated>>

\* The steady clock moves on between two calls.
Tick ==
    /\ now < MaxTick * 100000
    /\ now' = now + 100000
    /\ UNCHANGED <<descVars, sessVars, mgrVars, profile, uid, object, calls,
                   lastCall, updated, concVars>>

Next ==
    \/ pause
    \/ resume
    \/ close
    \/ Destructor
    \/ \E d \in UpdateDurations : updateTargetWorkDuration(d)
    \/ \E ds \in ActualDurations : reportActualWorkDuration(ds)
    \/ \E h \in SessionHints : sendHint(h)
    \/ \E m \in SessionModes, e \in BOOLEAN : setMode(m, e)
    \/ \E tids \in ThreadLists : setThreads(tids)
    \/ Tick

Spec == Init /\ [][Next]_vars

\* --------------------------------------- the methods, several binder threads
\* close(), pause() and resume() run by binder threads that interleave at
\* every access to mSessionClosed and is_active.  A method starts with its
\* first access; the destructor runs once no call is in flight.
seqVars == <<targetNs, pidSetPoint, update_count, integral_error,
             previous_error, mLastUpdatedTime, mModes, threads, envVars,
             calls, lastCall, updated, regs>>

Begin(t) == pc[t] = "idle" /\ object = "live" /\ started < MaxCalls

\* Faulty variant: a close() that stores true without comparing.
closeCasPlainStore(t) ==
    /\ Begin(t)
    /\ started' = started + 1
    /\ mSessionClosed' = TRUE
    /\ pc' = [pc EXCEPT ![t] = "close_remove"]
    /\ UNCHANGED <<ret, is_active, nRemoved, seqVars>>

\* mSessionClosed.compare_exchange_strong(false, true)
closeCas(t) ==
    /\ Begin(t)
    /\ started' = started + 1
    /\ IF mSessionClosed
       THEN /\ ret' = [ret EXCEPT ![EX_ILLEGAL_STATE] = @ + 1]
            /\ UNCHANGED <<pc, mSessionClosed>>
       ELSE /\ mSessionClosed' = TRUE
            /\ pc' = [pc EXCEPT ![t] = "close_remove"]
            /\ UNCHANGED ret
    /\ UNCHANGED <<is_active, nRemoved, seqVars>>

\* Faulty variant: a close() that marks the session inactive at the point
\* where it should remove it from PowerSessionManager.
closeStoreBeforeRemove(t) ==
    /\ pc[t] = "close_remove"
    /\ is_active' = FALSE
    /\ pc' = [pc EXCEPT ![t] = "close_store"]
    /\ UNCHANGED <<nRemoved, mSessionClosed, started, ret, seqVars>>

\* mPSManager->removePowerSession(mSessionId)
closeRemove(t) ==
    /\ pc[t] = "close_remove"
    /\ nRemoved' = nRemoved + 1
    /\ pc' = [pc EXCEPT ![t] = "close_store"]
    /\ UNCHANGED <<is_active, mSessionClosed, started, ret, seqVars>>

\* mDescriptor->is_active.store(false); return ok
closeStore(t) ==
    /\ pc[t] = "close_store"
    /\ is_active' = FALSE
    /\ ret' = [ret EXCEPT ![EX_NONE] = @ + 1]
    /\ pc' = [pc EXCEPT ![t] = "idle"]
    /\ UNCHANGED <<mSessionClosed, nRemoved, started, seqVars>>

\* if (mSessionClosed) of pause() and of resume()
checkClosed(t, op) ==
    /\ Begin(t)
    /\ started' = started + 1
    /\ pc' = IF mSessionClosed THEN pc ELSE [pc EXCEPT ![t] = op \o "_load"]
    /\ UNCHANGED <<is_active, mSessionClosed, nRemoved, ret, seqVars>>

\* if (!is_active.load()) of pause(), if (is_active.load()) of resume()
loadActive(t, op) ==
    /\ pc[t] = op \o "_load"
    /\ pc' = [pc EXCEPT ![t] = IF is_active = (op = "pause")
                               THEN op \o "_store" ELSE "idle"]
    /\ UNCHANGED <<is_active, mSessionClosed, nRemoved, started, ret, seqVars>>

\* is_active.store(false) of pause(), is_active.store(true) of resume()
storeActive(t, op) ==
    /\ pc[t] = op \o "_store"
    /\ is_active' = (op = "resume")
    /\ pc' = [pc EXCEPT ![t] = op \o "_mgr"]
    /\ UNCHANGED <<mSessionClosed, nRemoved, started, ret, seqVars>>

\* mPSManager->pause(mSessionId), mPSManager->resume(mSessionId); return ok
callMgr(t, op) ==
    /\ pc[t] = op \o "_mgr"
    /\ pc' = [pc EXCEPT ![t] = "idle"]
    /\ UNCHANGED <<is_active, mSessionClosed, nRemoved, started, ret, seqVars>>

NextConc ==
    \/ \E t \in Threads : closeCas(t)
    \/ \E t \in Threads : closeRemove(t)
    \/ \E t \in Threads : closeStore(t)
    \/ \E t \in Threads, op \in {"pause", "resume"} : checkClosed(t, op)
    \/ \E t \in Threads, op \in {"pause", "resume"} : loadActive(t, op)
    \/ \E t \in Threads, op \in {"pause", "resume"} : storeActive(t, op)
    \/ \E t \in Threads, op \in {"pause", "resume"} : callMgr(t, op)
    \/ Destructor

SpecConc == Init /\ [][NextConc]_vars

\* ------------------------------------------------- the PID loop at work
\* One caller that only reports, on sessions built with the targets of
\* PidCtorArgs under each profile of PidProfiles.
InitPid == InitWith(PidProfiles, PidCtorArgs)

NextPid == \E ds \in PidDurations : report(ds, MaxPidUpdates)

SpecPid == InitPid /\ [][NextPid]_vars

\* ------------------------------- reportActualWorkDuration, several threads
\* The session holds no lock: two binder threads may be inside
\* reportActualWorkDuration at once.  update_count, integral_error,
\* previous_error and pidSetPoint are plain fields, so every read and write
\* of them is a step of its own; the descriptor fields a thread has read are
\* kept in regs[t].  Each thread makes one call.  The calls on
\* PowerSessionManager are not logged here, and the clock stands still.
raceVars == <<targetNs, is_active, mSessionClosed, mModes, mgrVars, envVars,
              calls, lastCall, updated, started, ret>>

\* The checks, then the read of update_count++.
reportLoadCount(t, actualDurations) ==
    /\ pc[t] = "idle"
    /\ regs[t].st = "-"
    /\ object = "live"
    /\ IF reportActualWorkDurationChecks(actualDurations) # EX_NONE
       THEN /\ regs' = [regs EXCEPT ![t].st =
                            reportActualWorkDurationChecks(actualDurations)]
            /\ UNCHANGED pc
       ELSE /\ regs' = [regs EXCEPT ![t].ds = actualDurations,
                                    ![t].count = update_count]
            /\ pc' = [pc EXCEPT ![t] = "report_count"]
    /\ UNCHANGED <<update_count, integral_error, previous_error, pidSetPoint,
                   mLastUpdatedTime, raceVars>>

\* The write of update_count++ and the store to mLastUpdatedTime; then
\* either updatePidSetPoint(mUclampMinHigh), or the first reads of
\* integral_error and previous_error in convertWorkDurationToBoostByPid.
reportStoreCount(t) ==
    /\ pc[t] = "report_count"
    /\ update_count' = regs[t].count + 1
    /\ mLastUpdatedTime' = now
    /\ IF ~GetAdpfProfile.mPidOn
       THEN /\ pidSetPoint' = GetAdpfProfile.mUclampMinHigh
            /\ regs' = [regs EXCEPT ![t].st = EX_NONE]
            /\ pc' = [pc EXCEPT ![t] = "idle"]
       ELSE /\ regs' = [regs EXCEPT ![t].integ = integral_error,
                                    ![t].prev = previous_error]
            /\ pc' = [pc EXCEPT ![t] = "report_pid"]
            /\ UNCHANGED pidSetPoint
    /\ UNCHANGED <<integral_error, previous_error, raceVars>>

\* The loop on the values read, and the writes of what it leaves in
\* integral_error and previous_error.  dt is not 0 here: the targets the
\* constructor is given in this specification are 0 and +-100000.
reportStorePid(t) ==
    /\ pc[t] = "report_pid"
    /\ LET r == convertWorkDurationToBoostByPid(
                    GetAdpfProfile, targetNs, regs[t].integ, regs[t].prev,
                    regs[t].ds, 0)
       IN  /\ integral_error' = r.integral_error
           /\ previous_error' = r.previous_error
           /\ regs' = [regs EXCEPT ![t].output = r.output]
    /\ pc' = [pc EXCEPT ![t] = "report_apply"]
    /\ UNCHANGED <<update_count, pidSetPoint, mLastUpdatedTime, raceVars>>

\* next_min from pidSetPoint, and updatePidSetPoint(next_min); return ok.
reportApply(t) ==
    /\ pc[t] = "report_apply"
    /\ pidSetPoint' = nextMin(regs[t].output)
    /\ regs' = [regs EXCEPT ![t].st = EX_NONE]
    /\ pc' = [pc EXCEPT ![t] = "idle"]
    /\ UNCHANGED <<update_count, integral_error, previous_error,
                   mLastUpdatedTime, raceVars>>

NextRace ==
    \/ \E t \in Threads, ds \in ActualDurations : reportLoadCount(t, ds)
    \/ \E t \in Threads : reportStoreCount(t)
    \/ \E t \in Threads : reportStorePid(t)
    \/ \E t \in Threads : reportApply(t)

SpecRace == Init /\ [][NextRace]_vars

\* What one accepted reportActualWorkDuration(actualDurations), run alone,
\* makes of the descriptor fields d.
reportResult(d, actualDurations) ==
    IF ~GetAdpfProfile.mPidOn
    THEN [d EXCEPT !.update_count = @ + 1,
                   !.pidSetPoint = GetAdpfProfile.mUclampMinHigh]
    ELSE LET r == convertWorkDurationToBoostByPid(
                      GetAdpfProfile, targetNs, d.integral_error,
                      d.previous_error, actualDurations, 0)
         IN  [update_count |-> d.update_count + 1,
              integral_error |-> r.integral_error,
              previous_error |-> r.previous_error,
              pidSetPoint |->
                  Max2(GetAdpfProfile.mUclampMinLow,
                       Min2(GetAdpfProfile.mUclampMinHigh,
                            d.pidSetPoint + r.output))]

\* ================================================================ claims
\* A step of Spec in which method op runs: the clock stands still and
\* lastCall' describes the call.
CallStep(op) == now' = now /\ lastCall'.op = op

PublicMethods ==
    {"pause", "resume", "close", "updateTargetWorkDuration",
     "reportActualWorkDuration", "sendHint", "setMode", "setThreads"}

\* -------------------------------------------------------------------- C1
closeReturned ==
    ret[EX_NONE] + ret[EX_ILLEGAL_STATE]
        + (IF object = "destroyed" THEN 1 ELSE 0)
closeSucceeded ==
    ret[EX_NONE]
        + (IF object = "destroyed" /\ lastCall.st = EX_NONE THEN 1 ELSE 0)
closeInFlight == \E t \in Threads : pc[t] \in {"close_remove", "close_store"}

\* C1: however the close() calls of the binder threads interleave, and with
\* the close() of the destructor counted, at most one close() returns ok and
\* removePowerSession is called at most once; a close() that returned ok has
\* called removePowerSession; and once some close() has returned and none is
\* in flight, exactly one has returned ok (all others EX_ILLEGAL_STATE) and
\* removePowerSession has been called exactly once.
C1_CloseExactlyOnce ==
    /\ closeSucceeded <= 1
    /\ nRemoved <= 1
    /\ closeSucceeded = 1 => nRemoved = 1
    /\ (closeReturned >= 1 /\ ~closeInFlight) =>
           /\ closeSucceeded = 1
           /\ nRemoved = 1

\* Two close() calls overlap: one has returned EX_ILLEGAL_STATE while the
\* winner is still inside close().
C1_Witness ==
    /\ ret[EX_ILLEGAL_STATE] >= 1
    /\ \E t \in Threads : pc[t] = "close_remove"

\* -------------------------------------------------------------------- C2
\* C2: from a closed session every step leaves the session closed, and every
\* public method run on it (and the close() of the destructor) returns
\* EX_ILLEGAL_STATE, whatever its arguments.
C2_ClosedIsTerminal ==
    [][mSessionClosed =>
          /\ mSessionClosed'
          /\ now' = now => lastCall'.st = EX_ILLEGAL_STATE
          /\ (now' = now /\ object' = "live") => lastCall'.op \in PublicMethods
      ]_vars

\* setThreads([]) on a closed session: EX_ILLEGAL_STATE, not the
\* EX_ILLEGAL_ARGUMENT an open session would answer.
C2_Witness ==
    /\ mSessionClosed
    /\ lastCall.op = "setThreads"
    /\ lastCall.arg = << >>
    /\ lastCall.st = EX_ILLEGAL_STATE

\* -------------------------------------------------------------------- C3
\* C3: on a session that is not closed, pause() returns ok exactly when the
\* session is active and leaves it paused, resume() returns ok exactly when
\* it is paused and leaves it active; otherwise each returns
\* EX_ILLEGAL_STATE and leaves is_active as it was.
C3_PauseResume ==
    [][~mSessionClosed =>
          /\ CallStep("pause") =>
                 IF is_active
                 THEN lastCall'.st = EX_NONE /\ ~is_active'
                 ELSE lastCall'.st = EX_ILLEGAL_STATE /\ ~is_active'
          /\ CallStep("resume") =>
                 IF ~is_active
                 THEN lastCall'.st = EX_NONE /\ is_active'
                 ELSE lastCall'.st = EX_ILLEGAL_STATE /\ is_active'
      ]_vars

\* The second pause() of pause(); pause().
C3_Witness ==
    /\ ~mSessionClosed
    /\ ~is_active
    /\ lastCall = Call("pause", 0, EX_ILLEGAL_STATE)

C5_AsClaimed ==
    [][(CallStep("reportActualWorkDuration") /\ lastCall'.arg = << >>) =>
          lastCall'.st = EX_ILLEGAL_ARGUMENT]_vars

\* C5: reportActualWorkDuration([]) returns EX_ILLEGAL_ARGUMENT on every
\* open session with a non-zero target, active or paused, and
\* EX_ILLEGAL_STATE on a closed session and on one whose target is 0.
C5_EmptyReport ==
    [][(CallStep("reportActualWorkDuration") /\ lastCall'.arg = << >>) =>
          lastCall'.st = IF mSessionClosed \/ targetNs = 0
                         THEN EX_ILLEGAL_STATE
                         ELSE EX_ILLEGAL_ARGUMENT]_vars

\* An empty report on a paused, open session with a target.
C5_Witness ==
    /\ ~mSessionClosed
    /\ ~is_active
    /\ targetNs # 0
    /\ lastCall = Call("reportActualWorkDuration", << >>, EX_ILLEGAL_ARGUMENT)

\* -------------------------------------------------------------------- C6
\* C6: on an active session, reportActualWorkDuration([d]) right after a
\* successful updateTargetWorkDuration(d) does not return EX_ILLEGAL_STATE:
\* the target that the update stored is not 0.
C6_TargetedAfterUpdate ==
    [][(/\ lastCall.op = "updateTargetWorkDuration"
        /\ lastCall.st = EX_NONE
        /\ is_active
        /\ CallStep("reportActualWorkDuration")
        /\ lastCall'.arg = <<lastCall.arg>>) =>
          (targetNs # 0 /\ lastCall'.st # EX_ILLEGAL_STATE)]_vars

\* -------------------------------------------------------------------- C7
\* C7: on a paused, open session with a non-zero target, a non-empty
\* reportActualWorkDuration returns EX_ILLEGAL_STATE, leaves update_count,
\* pidSetPoint, integral_error, previous_error and mLastUpdatedTime as they
\* were and calls nothing on PowerSessionManager or HintManager.
C7_ReportWhilePaused ==
    [][(/\ ~mSessionClosed
        /\ ~is_active
        /\ targetNs # 0
        /\ CallStep("reportActualWorkDuration")
        /\ lastCall'.arg # << >>) =>
          /\ lastCall'.st = EX_ILLEGAL_STATE
          /\ calls' = << >>
          /\ UNCHANGED <<update_count, pidSetPoint, integral_error,
                         previous_error, mLastUpdatedTime>>
      ]_vars

C7_Witness ==
    /\ ~mSessionClosed
    /\ ~is_active
    /\ targetNs # 0
    /\ lastCall.op = "reportActualWorkDuration"
    /\ lastCall.arg # << >>
    /\ lastCall.st = EX_ILLEGAL_STATE

\* -------------------------------------------------------------------- C8
\* C8: after an accepted reportActualWorkDuration and until the next call,
\* isTimeout() is false while no time has passed, and is true only once the
\* clock is at least targetNs * mStaleTimeFactor past the report.
C8_FreshAfterReport ==
    (lastCall.op = "reportActualWorkDuration" /\ lastCall.st = EX_NONE) =>
        /\ now = mLastUpdatedTime => ~isTimeout
        /\ isTimeout =>
               (now - mLastUpdatedTime) * GetAdpfProfile.mStaleTimeFactor.d
                   >= targetNs * GetAdpfProfile.mStaleTimeFactor.n

\* -------------------------------------------------------------------- C9
\* C9: on a session that is not closed, setThreads([]) returns
\* EX_ILLEGAL_ARGUMENT and leaves pidSetPoint and the registered threads as
\* they were; setThreads of a non-empty list returns ok, hands the list to
\* PowerSessionManager and leaves pidSetPoint at mUclampMinInit.
C9_SetThreads ==
    [][(~mSessionClosed /\ CallStep("setThreads")) =>
          IF lastCall'.arg = << >>
          THEN /\ lastCall'.st = EX_ILLEGAL_ARGUMENT
               /\ UNCHANGED <<pidSetPoint, threads>>
               /\ calls' = << >>
          ELSE /\ lastCall'.st = EX_NONE
               /\ threads' = lastCall'.arg
               /\ calls'[1].fn = "setThreadsFromPowerSession"
               /\ pidSetPoint' = GetAdpfProfile.mUclampMinInit
      ]_vars

\* setThreads([1, 2]) moved the set point of a session to mUclampMinInit.
C9_Witness ==
    /\ ~mSessionClosed
    /\ lastCall = Call("setThreads", <<1, 2>>, EX_NONE)
    /\ threads = <<1, 2>>
    /\ pidSetPoint = GetAdpfProfile.mUclampMinInit
    /\ update_count > 0

\* ------------------------------------------------------------------- C10
\* C10: on a session that is not closed, setMode of a mode other than
\* POWER_EFFICIENCY returns EX_ILLEGAL_ARGUMENT and leaves mModes and
\* mLastUpdatedTime as they were; setMode(POWER_EFFICIENCY, e) returns ok,
\* stores e, sets mLastUpdatedTime to the clock, leaves pidSetPoint,
\* integral_error, previous_error and is_active as they were and casts no
\* vote.
C10_SetMode ==
    [][(~mSessionClosed /\ CallStep("setMode")) =>
          IF lastCall'.arg[1] # POWER_EFFICIENCY
          THEN /\ lastCall'.st = EX_ILLEGAL_ARGUMENT
               /\ UNCHANGED <<mModes, mLastUpdatedTime>>
          ELSE /\ lastCall'.st = EX_NONE
               /\ mModes' = [mModes EXCEPT ![POWER_EFFICIENCY] =
                                               lastCall'.arg[2]]
               /\ mLastUpdatedTime' = now
               /\ calls' = << >>
               /\ UNCHANGED <<pidSetPoint, integral_error, previous_error,
                              is_active>>
      ]_vars

\* setMode(POWER_EFFICIENCY, true) after the clock has moved: the flag is
\* set and the timestamp is the clock's.
C10_Witness ==
    /\ ~mSessionClosed
    /\ lastCall = Call("setMode", <<POWER_EFFICIENCY, TRUE>>, EX_NONE)
    /\ mModes[POWER_EFFICIENCY]
    /\ now > 0
    /\ mLastUpdatedTime = now

\* ------------------------------------------------------------------- C11
\* C11: on an open session with a non-zero target, active or paused,
\* sendHint(CPU_LOAD_UP) keeps the set point, votes it as the default vote
\* and adds an ADPF_CPU_LOAD_UP vote for 2 * targetNs; CPU_LOAD_DOWN sets
\* the set point to mUclampMinLow and casts the default vote alone;
\* CPU_LOAD_RESET sets it to max(mUclampMinInit, set point), casts no
\* default vote and adds an ADPF_CPU_LOAD_RESET vote for
\* targetNs * mStaleTimeFactor / 2; CPU_LOAD_RESUME keeps it and votes it as
\* ADPF_CPU_LOAD_RESUME for the same time; each of them stores the clock in
\* mLastUpdatedTime.  Any other hint returns EX_ILLEGAL_ARGUMENT, casts no
\* vote and leaves the set point and mLastUpdatedTime as they were.
C11_SendHint ==
    [][(~mSessionClosed /\ targetNs # 0 /\ CallStep("sendHint")) =>
          LET hint == lastCall'.arg
              cfg == GetAdpfProfile
              half == TruncDiv(targetNs * cfg.mStaleTimeFactor.n,
                               cfg.mStaleTimeFactor.d * 2)
              full == TruncDiv(targetNs * cfg.mStaleTimeFactor.n,
                               cfg.mStaleTimeFactor.d)
              votes == SelectSeq(calls', LAMBDA c : c.fn = "voteSet")
          IN  IF hint = CPU_LOAD_UP
              THEN /\ lastCall'.st = EX_NONE
                   /\ pidSetPoint' = pidSetPoint
                   /\ mLastUpdatedTime' = now
                   /\ votes = <<voteSet("ADPF_VOTE_DEFAULT", pidSetPoint, full),
                                voteSet("ADPF_CPU_LOAD_UP", cfg.mUclampMinHigh,
                                        2 * targetNs)>>
              ELSE IF hint = CPU_LOAD_DOWN
              THEN /\ lastCall'.st = EX_NONE
                   /\ pidSetPoint' = cfg.mUclampMinLow
                   /\ mLastUpdatedTime' = now
                   /\ votes = <<voteSet("ADPF_VOTE_DEFAULT", cfg.mUclampMinLow,
                                        full)>>
              ELSE IF hint = CPU_LOAD_RESET
              THEN /\ lastCall'.st = EX_NONE
                   /\ pidSetPoint' = IF pidSetPoint > cfg.mUclampMinInit
                                     THEN pidSetPoint ELSE cfg.mUclampMinInit
                   /\ mLastUpdatedTime' = now
                   /\ votes = <<voteSet("ADPF_CPU_LOAD_RESET",
                                        cfg.mUclampMinHigh, half)>>
              ELSE IF hint = CPU_LOAD_RESUME
              THEN /\ lastCall'.st = EX_NONE
                   /\ pidSetPoint' = pidSetPoint
                   /\ mLastUpdatedTime' = now
                   /\ votes = <<voteSet("ADPF_CPU_LOAD_RESUME", pidSetPoint,
                                        half)>>
              ELSE /\ lastCall'.st = EX_ILLEGAL_ARGUMENT
                   /\ calls' = << >>
                   /\ UNCHANGED <<pidSetPoint, mLastUpdatedTime>>
      ]_vars

\* sendHint(CPU_LOAD_RESET) on a session whose set point stood above
\* mUclampMinInit, after the clock has moved: the set point is kept.
C11_Witness ==
    /\ ~mSessionClosed
    /\ targetNs # 0
    /\ lastCall = Call("sendHint", CPU_LOAD_RESET, EX_NONE)
    /\ pidSetPoint > GetAdpfProfile.mUclampMinInit
    /\ now > 0
    /\ mLastUpdatedTime = now

\* ------------------------------------------------------------------- C12
\* C12: in every interleaving, the close() that won the exchange calls
\* removePowerSession while it leaves is_active alone, and stores false in
\* is_active only in a later step, when the session has been removed: no
\* step of a close() turns is_active false while removePowerSession has not
\* been called.
C12_RemoveBeforeInactive ==
    [][\A t \in Threads :
          (pc'[t] # pc[t]
             /\ (pc[t] \in {"close_remove", "close_store"}
                   \/ pc'[t] = "close_remove")) =>
              /\ is_active' # is_active => nRemoved >= 1
              /\ pc[t] = "close_remove" =>
                     (nRemoved' = nRemoved + 1 /\ is_active' = is_active)
              /\ pc[t] = "close_store" =>
                     (nRemoved = 1 /\ nRemoved' = 1 /\ ~is_active')
      ]_vars

\* Between the two steps: the session is removed and still marked active.
C12_Witness ==
    /\ \E t \in Threads : pc[t] = "close_store"
    /\ nRemoved = 1
    /\ is_active
    /\ mSessionClosed

\* ------------------------------------------------------------------- C13
\* C13: when two threads have each had one reportActualWorkDuration
\* accepted on a fresh session and both have returned, update_count,
\* integral_error, previous_error and pidSetPoint are what running the two
\* calls one after the other, in one of the two orders, leaves (update_count
\* is 2).
C13_ReportsSerialized ==
    \A t1, t2 \in Threads :
        (/\ t1 # t2
         /\ pc[t1] = "idle" /\ regs[t1].st = EX_NONE
         /\ pc[t2] = "idle" /\ regs[t2].st = EX_NONE
         /\ \A t \in Threads \ {t1, t2} : regs[t].st = "-") =>
            LET fresh == [update_count |-> 0, integral_error |-> 0,
                          previous_error |-> 0, pidSetPoint |-> 0]
                end == [update_count |-> update_count,
                        integral_error |-> integral_error,
                        previous_error |-> previous_error,
                        pidSetPoint |-> pidSetPoint]
            IN  /\ update_count = 2
                /\ \/ end = reportResult(reportResult(fresh, regs[t1].ds),
                                          regs[t2].ds)
                   \/ end = reportResult(reportResult(fresh, regs[t2].ds),
                                          regs[t1].ds)

\* ---------------------------------------------------- the PID claims
\* A step in which a reportActualWorkDuration call is accepted.
ReportAccepted ==
    CallStep("reportActualWorkDuration") /\ lastCall'.st = EX_NONE

\* What convertWorkDurationToBoostByPid can return for a report made in the
\* current state.
PidRuns(actualDurations) ==
    {convertWorkDurationToBoostByPid(GetAdpfProfile, targetNs, integral_error,
                                     previous_error, actualDurations, ub) :
        ub \in IF ns_to_100us(targetNs) = 0 THEN {-1, 0} ELSE {0}}

\* Every window 0 and every gain 1.
UnitGains ==
    /\ GetAdpfProfile.mPidOn
    /\ GetAdpfProfile.mSamplingWindowP = 0
    /\ GetAdpfProfile.mSamplingWindowI = 0
    /\ GetAdpfProfile.mSamplingWindowD = 0
    /\ \A g \in {"mPidPo", "mPidPu", "mPidI", "mPidDo", "mPidDu"} :
           GetAdpfProfile[g] = Frac(1, 1)

\* ------------------------------------------------------------------- C14
\* C14 as claimed: with every window 0 and every gain 1, an accepted report
\* of the one duration targetNs computes the boost 0 and leaves pidSetPoint
\* as it was.
C14_AsClaimed ==
    [][(UnitGains /\ ReportAccepted /\ lastCall'.arg = <<targetNs>>) =>
          /\ \A r \in PidRuns(<<targetNs>>) : r.output = 0
          /\ pidSetPoint' = pidSetPoint
      ]_vars

\* C14: with every window 0 and every gain 1, on a session whose
\* integral_error and previous_error are 0 (0 lying within the integral
\* bounds), an accepted report of the one duration targetNs has pOut = 0 and
\* iOut = 0; when ns_to_100us(targetNs) is not 0 the boost is 0 and
\* pidSetPoint becomes the old set point clamped into
\* [mUclampMinLow, mUclampMinHigh], so it stays as it was exactly when it
\* lay within these bounds.
C14_OnTargetReport ==
    [][(/\ UnitGains
        /\ integral_error = 0
        /\ previous_error = 0
        /\ GetAdpfProfile.PidILowDivI <= 0
        /\ GetAdpfProfile.PidIHighDivI >= 0
        /\ ReportAccepted
        /\ lastCall'.arg = <<targetNs>>) =>
          /\ \A r \in PidRuns(<<targetNs>>) : r.pOut = 0 /\ r.iOut = 0
          /\ ns_to_100us(targetNs) # 0 =>
                 /\ \A r \in PidRuns(<<targetNs>>) : r.output = 0
                 /\ pidSetPoint' =
                        IF pidSetPoint < GetAdpfProfile.mUclampMinLow
                        THEN GetAdpfProfile.mUclampMinLow
                        ELSE IF pidSetPoint > GetAdpfProfile.mUclampMinHigh
                        THEN GetAdpfProfile.mUclampMinHigh
                        ELSE pidSetPoint
                 /\ (pidSetPoint' = pidSetPoint) <=>
                        /\ pidSetPoint >= GetAdpfProfile.mUclampMinLow
                        /\ pidSetPoint <= GetAdpfProfile.mUclampMinHigh
      ]_vars

\* The first report of a session, on target: the set point the constructor
\* left at 0 is now mUclampMinLow.
C14_Witness ==
    /\ UnitGains
    /\ update_count = 1
    /\ ns_to_100us(targetNs) # 0
    /\ lastCall = Call("reportActualWorkDuration", <<targetNs>>, EX_NONE)
    /\ integral_error = 0
    /\ previous_error = 0
    /\ pidSetPoint = GetAdpfProfile.mUclampMinLow
    /\ pidSetPoint # 0

\* ------------------------------------------------------------------- C15
StrictlyIncreasing(ds) == \A k \in 1..(Len(ds) - 1) : ds[k] < ds[k + 1]

PositiveDGains ==
    /\ GetAdpfProfile.mPidOn
    /\ GetAdpfProfile.mPidDo.n > 0
    /\ GetAdpfProfile.mPidDu.n > 0

\* C15 as claimed: with positive derivative gains, an accepted report of two
\* or more strictly increasing durations has a positive derivative_sum and
\* a positive dOut.
C15_AsClaimed ==
    [][(/\ PositiveDGains
        /\ ReportAccepted
        /\ Len(lastCall'.arg) >= 2
        /\ StrictlyIncreasing(lastCall'.arg)) =>
          \A r \in PidRuns(lastCall'.arg) :
              r.derivative_sum > 0 /\ r.dOut > 0
      ]_vars

\* C15: with positive derivative gains, in an accepted report of strictly
\* increasing durations d[1..n], with e[k] the error (d[k] - targetNs) / 100000
\* truncated toward zero, derivative_sum is e[n] - before, where before is
\* the previous_error the report found when the loop starts at the first
\* sample of the derivative window, and the error of the sample just before
\* that window otherwise.  In the second case derivative_sum is never
\* negative, but it is 0 when the errors truncate to the same value; in the
\* first it has any sign.  When derivative_sum is positive, dOut is
\* never negative for a target of 100000 ns or more (it truncates to 0 when
\* gain * derivative_sum < dt * (n - d_start)) and never positive for a
\* target of -100000 ns or less.
C15_DerivativeSign ==
    [][(/\ PositiveDGains
        /\ ReportAccepted
        /\ StrictlyIncreasing(lastCall'.arg)) =>
          LET d == lastCall'.arg
              n == Len(d)
              cfg == GetAdpfProfile
              pS == IF cfg.mSamplingWindowP = 0 \/ cfg.mSamplingWindowP > n
                    THEN 0 ELSE n - cfg.mSamplingWindowP
              iS == IF cfg.mSamplingWindowI = 0 \/ cfg.mSamplingWindowI > n
                    THEN 0 ELSE n - cfg.mSamplingWindowI
              dS == IF cfg.mSamplingWindowD = 0 \/ cfg.mSamplingWindowD > n
                    THEN 0 ELSE n - cfg.mSamplingWindowD
              first == IF pS <= iS /\ pS <= dS THEN pS
                       ELSE IF iS <= dS THEN iS ELSE dS
              e == [k \in 1..n |-> TruncDiv(d[k] - targetNs, 100000)]
              before == IF dS = first THEN previous_error ELSE e[dS]
              dt == TruncDiv(targetNs, 100000)
          IN  \A r \in PidRuns(d) :
                  /\ r.derivative_sum = e[n] - before
                  /\ dS > first => r.derivative_sum >= 0
                  /\ (r.derivative_sum > 0 /\ dt > 0) => r.dOut >= 0
                  /\ (r.derivative_sum > 0 /\ dt < 0) => r.dOut <= 0
      ]_vars

\* The first report of a session, two strictly increasing durations whose
\* errors both truncate to 0: previous_error is still 0, and so was
\* derivative_sum.
C15_Witness ==
    /\ PositiveDGains
    /\ update_count = 1
    /\ targetNs = 100000
    /\ lastCall = Call("reportActualWorkDuration", <<100000, 150000>>, EX_NONE)
    /\ previous_error = 0

\* ------------------------------------------------------------------- C16
\* C16: after every accepted reportActualWorkDuration, pidSetPoint lies
\* between mUclampMinLow and mUclampMinHigh.  With mPidOn it is the old set
\* point plus the boost, raised to mUclampMinLow or lowered to
\* mUclampMinHigh when outside; without mPidOn it is mUclampMinHigh, and
\* integral_error and previous_error are as they were.
C16_SetPointClamped ==
    [][ReportAccepted =>
          LET low == GetAdpfProfile.mUclampMinLow
              high == GetAdpfProfile.mUclampMinHigh
          IN  /\ low <= pidSetPoint' /\ pidSetPoint' <= high
              /\ IF GetAdpfProfile.mPidOn
                 THEN \E r \in PidRuns(lastCall'.arg) :
                          pidSetPoint' =
                              IF pidSetPoint + r.output > high THEN high
                              ELSE IF pidSetPoint + r.output < low THEN low
                              ELSE pidSetPoint + r.output
                 ELSE /\ pidSetPoint' = high
                      /\ UNCHANGED <<integral_error, previous_error>>
      ]_vars

\* The first report of a session, of one duration 200000 ns above the target
\* of 100000 ns under the unit profile: the boost is 2 + 2 + 2 and the set
\* point is held at mUclampMinHigh.
C16_Witness ==
    /\ profile = "unit"
    /\ targetNs = 100000
    /\ update_count = 1
    /\ lastCall = Call("reportActualWorkDuration", <<300000>>, EX_NONE)
    /\ pidSetPoint = GetAdpfProfile.mUclampMinHigh
    /\ previous_error = 2

\* ------------------------------------------------------------------- C17
\* C17: after every accepted reportActualWorkDuration with mPidOn,
\* integral_error lies between getPidILowDivI() and getPidIHighDivI(),
\* whatever it was before and whatever the windows are, and previous_error
\* is the error of the last duration reported.
C17_IntegralClamped ==
    [][(ReportAccepted /\ GetAdpfProfile.mPidOn) =>
          LET d == lastCall'.arg
          IN  /\ GetAdpfProfile.PidILowDivI <= integral_error'
              /\ integral_error' <= GetAdpfProfile.PidIHighDivI
              /\ previous_error' = TruncDiv(d[Len(d)] - targetNs, 100000)
      ]_vars

\* The first report of a session under integral bounds that leave 0 out,
\* and with an integral window shorter than the vector: integral_error was
\* 0 and is now within the bounds.
C17_Witness ==
    /\ GetAdpfProfile.mPidOn
    /\ GetAdpfProfile.PidILowDivI > 0
    /\ update_count = 1
    /\ lastCall.op = "reportActualWorkDuration"
    /\ lastCall.st = EX_NONE
    /\ Len(lastCall.arg) > GetAdpfProfile.mSamplingWindowI
    /\ integral_error >= GetAdpfProfile.PidILowDivI
    /\ integral_error <= GetAdpfProfile.PidIHighDivI

\* ------------------------------------------------------------------- C18
\* The places in the calls of the step's method where fn is called.
CalledNext(fn) == {i \in 1..Len(calls') : calls'[i].fn = fn}

\* C18: an accepted reportActualWorkDuration calls disableBoosts exactly
\* once, casts its default vote after that call and casts no vote before it.
C18_DisableBoostsFirst ==
    [][ReportAccepted =>
          /\ Cardinality(CalledNext("disableBoosts")) = 1
          /\ \A i \in CalledNext("voteSet"), j \in CalledNext("disableBoosts") :
                 j < i
          /\ \E i \in CalledNext("voteSet") :
                 /\ calls'[i].kind = "ADPF_VOTE_DEFAULT"
                 /\ calls'[i].value = pidSetPoint'
      ]_vars

\* A report on a session that is not stale: disableBoosts, then the vote.
C18_Witness ==
    /\ lastCall.op = "reportActualWorkDuration"
    /\ lastCall.st = EX_NONE
    /\ Len(calls) = 2
    /\ calls[1] = Mgr("disableBoosts")
    /\ calls[2] = voteSet("ADPF_VOTE_DEFAULT", pidSetPoint, StaleWindow)

\* ------------------------------------------------------------------- C19
\* C19: an accepted reportActualWorkDuration calls updateUniversalBoostMode
\* exactly when isTimeout() held as the call arrived, with mLastUpdatedTime
\* as the report found it, and then once; it sends ADPF_FIRST_FRAME to
\* HintManager exactly when, in addition, the session is an application's.
C19_FirstFrame ==
    [][ReportAccepted =>
          /\ Cardinality(CalledNext("updateUniversalBoostMode")) =
                 IF isTimeout THEN 1 ELSE 0
          /\ {i \in CalledNext("DoHint") : calls'[i].kind = "ADPF_FIRST_FRAME"}
                 = IF isTimeout /\ isAppSession THEN {1} ELSE {}
          /\ mLastUpdatedTime' = now
      ]_vars

\* A report on a stale session of an application, made after the clock has
\* moved: ADPF_FIRST_FRAME, then updateUniversalBoostMode.
C19_Witness ==
    /\ isAppSession
    /\ lastCall.op = "reportActualWorkDuration"
    /\ lastCall.st = EX_NONE
    /\ calls[1] = tryToSendPowerHint("ADPF_FIRST_FRAME")
    /\ calls[2] = Mgr("updateUniversalBoostMode")
    /\ now > 0
    /\ mLastUpdatedTime = now
    /\ StaleWindow > 0

\* ------------------------------------------------------------------- C20
\* C20: pause() and resume(), accepted or not, leave pidSetPoint, targetNs,
\* update_count, integral_error, previous_error, mLastUpdatedTime, the
\* closed flag, the modes and the registered threads as they were; an
\* accepted one inverts is_active and makes the one call pause(sessionId) or
\* resume(sessionId) on PowerSessionManager.  So a resume() right after an
\* accepted pause() is accepted and leaves the session as it was before the
\* pause().
C20_PauseResumeKeepState ==
    [][\A op \in {"pause", "resume"} :
          CallStep(op) =>
              /\ UNCHANGED <<pidSetPoint, targetNs, update_count,
                             integral_error, previous_error, mLastUpdatedTime,
                             mSessionClosed, mModes, threads>>
              /\ lastCall'.st = EX_NONE =>
                     (is_active' = ~is_active /\ calls' = <<Mgr(op)>>)
              /\ lastCall'.st # EX_NONE =>
                     (is_active' = is_active /\ calls' = << >>)
              /\ (op = "resume" /\ lastCall = Call("pause", 0, EX_NONE)) =>
                     (lastCall'.st = EX_NONE /\ is_active')
      ]_vars

\* pause() then resume() on a session that has a set point from a report.
C20_Witness ==
    /\ lastCall = Call("resume", 0, EX_NONE)
    /\ is_active
    /\ ~mSessionClosed
    /\ update_count > 0
    /\ pidSetPoint > 0

\* ------------------------------------------------------------------- C21
\* C21: in every interleaving of close() with pause() and resume(), a
\* thread makes its call mPSManager->pause(sessionId) or
\* mPSManager->resume(sessionId) only while removePowerSession(sessionId)
\* has not been called.
C21_NoCallAfterRemove ==
    [][\A t \in Threads :
          (pc[t] \in {"pause_mgr", "resume_mgr"} /\ pc'[t] = "idle") =>
              nRemoved = 0
      ]_vars

\* ------------------------------------------------------------------- C22
\* C22: in every interleaving of close() with pause() and resume(), once a
\* close() of a binder thread has returned ok, isActive() is false.
C22_InactiveAfterClose ==
    ret[EX_NONE] >= 1 => ~isActive

\* ------------------------------------------------------------------- C23
\* C23: in every reportActualWorkDuration that reaches
\* convertWorkDurationToBoostByPid, targetNs is positive and no divisor is
\* 0: dt = ns_to_100us(targetNs), length - p_start and length - d_start.
C23_DivisorsNonZero ==
    [][(/\ CallStep("reportActualWorkDuration")
        /\ lastCall'.st \in {EX_NONE, "SIGFPE"}
        /\ GetAdpfProfile.mPidOn) =>
          /\ targetNs > 0
          /\ \A r \in PidRuns(lastCall'.arg) :
                 r.dt # 0 /\ r.pLen >= 1 /\ r.dLen >= 1
      ]_vars

====
